---- MODULE Spec2Model ----
(***************************************************************************)
(* Hydraulic erosion simulation (OSEC502): the drop state machine, the     *)
(* erosion driver, the bilinear deposition, the gradient and the Gaussian  *)
(* terrain generator.                                                      *)
(*                                                                         *)
(* A C double is modelled as a decimal floating-point number: the integer  *)
(* v stands for the real v / SCALE, and the result of every arithmetic     *)
(* operation (+, -, *, /, sqrt) is rounded to the nearest number of        *)
(* DIGITS significant decimal digits, as IEEE arithmetic rounds every      *)
(* result to the nearest double.  Below 1.0 the spacing stays 1 / SCALE.   *)
(* A double carries some 16 significant digits and the model carries 6:    *)
(* the rounding residue a double shows at magnitudes near 1e11 shows in    *)
(* the model at magnitudes near 10.                                        *)
(* TLC integers are 32 bits wide: products are formed limb by limb.        *)
(***************************************************************************)
EXTENDS Integers, Sequences, FiniteSets, TLC

(***************************************************************************)
(* Floating-point arithmetic                                               *)
(***************************************************************************)
\* The integer standing for 1.0.
SCALE == 10 ^ 6

\* The least integer with more significant digits than a number keeps.
MANTISSA == 10 ^ 6

\* Mantissas are multiplied as two limbs of three digits:
\* LIMB * LIMB = MANTISSA = SCALE.
LIMB == 10 ^ 3

\* #define EPSILON 0.00001
EPSILON == SCALE \div 100000

\* Not-a-number, the result of 0.0 / 0.0; no finite value of the model.
NaN == 0 - 2147483647

Abs(a) == IF a < 0 THEN 0 - a ELSE a

Sign(a) == IF a < 0 THEN 0 - 1 ELSE 1

\* The spacing of the representable numbers around a >= 0 (a unit in the
\* last place): a representable number is a multiple of its quantum.
RECURSIVE Quantum(_)
Quantum(a) == IF a < MANTISSA THEN 1 ELSE 10 * Quantum(a \div 10)

\* v rounded to the nearest representable number.
Round(v) ==
    LET q == Quantum(Abs(v))
    IN  Sign(v) * (((Abs(v) + q \div 2) \div q) * q)

\* n units in the last place of v: the rounding n operations on numbers of
\* the magnitude of v can leave.
Ulps(n, v) == n * Quantum(Abs(v))

\* The real n as a number of the model.
Real(n) == n * SCALE

\* The fraction n/d of 1.0 (d divides SCALE).
Frac(n, d) == n * (SCALE \div d)

\* (int)v: C converts a double to int by truncation toward zero.
Trunc(v) == IF v >= 0 THEN v \div SCALE ELSE 0 - ((0 - v) \div SCALE)

\* The double sum and difference.
FAdd(a, b) == IF a = NaN \/ b = NaN THEN NaN ELSE Round(a + b)

FSub(a, b) == IF a = NaN \/ b = NaN THEN NaN ELSE Round(a - b)

\* a * b / SCALE to the nearest integer, for representable a, b >= 0: the
\* product of the mantissas is hi * SCALE + lo, and q is its weight.
MulAbs(a, b) ==
    LET q   == Quantum(a) * Quantum(b)
        m   == a \div Quantum(a)
        n   == b \div Quantum(b)
        m1  == m \div LIMB
        m0  == m % LIMB
        n1  == n \div LIMB
        n0  == n % LIMB
        mid == m1 * n0 + m0 * n1
        low == (mid % LIMB) * LIMB + m0 * n0
        hi  == m1 * n1 + (mid \div LIMB) + (low \div SCALE)
        lo  == low % SCALE
    IN  IF q >= SCALE
        THEN (hi * SCALE + lo) * (q \div SCALE)
        ELSE hi * q + ((lo + (SCALE \div q) \div 2) \div (SCALE \div q))

\* The double product a * b.
FMul(a, b) ==
    IF a = NaN \/ b = NaN
    THEN NaN
    ELSE Round(Sign(a) * Sign(b) * MulAbs(Abs(a), Abs(b)))

\* The digits of r / b (r < b) from the weight s / 10 down to 1, the last
\* one rounded to nearest.
RECURSIVE FracDigits(_, _, _)
FracDigits(r, b, s) ==
    IF s = 1
    THEN IF 2 * r >= b THEN 1 ELSE 0
    ELSE LET d == (r * 10) \div b
             m == (r * 10) % b
         IN  d * (s \div 10) + FracDigits(m, b, s \div 10)

\* a * SCALE / b to the nearest integer, for a >= 0 and representable
\* b > 0: long division by the mantissa of b.
DivAbs(a, b) ==
    LET d == b \div Quantum(b)
        s == SCALE \div Quantum(b)
    IN  (a \div d) * s + FracDigits(a % d, d, s)

\* The double quotient a / b; 0.0 / 0.0 is NaN, and so is NaN / b.
FDiv(a, b) ==
    IF a = NaN \/ b = NaN \/ b = 0
    THEN NaN
    ELSE Round(Sign(a) * Sign(b) * DivAbs(Abs(a), Abs(b)))

\* r * r as hi * SCALE + lo, for r >= 0.
Square(r) ==
    LET r1 == r \div LIMB
        r0 == r % LIMB
        u  == 2 * r1 * r0
        lo == (u % LIMB) * LIMB + r0 * r0
    IN  [hi |-> r1 * r1 + (u \div LIMB) + (lo \div SCALE),
         lo |-> lo % SCALE]

\* Whether r * r <= x * SCALE, for r, x >= 0.
SqLe(r, x) == Square(r).hi < x \/ (Square(r).hi = x /\ Square(r).lo = 0)

\* The largest r in lo..hi with r * r <= x * SCALE, by bisection (the
\* midpoint is bound through a set, so that it is computed once).
RECURSIVE SqrtBetween(_, _, _)
SqrtBetween(x, lo, hi) ==
    IF lo >= hi
    THEN lo
    ELSE CHOOSE r \in {IF SqLe(mid, x)
                       THEN SqrtBetween(x, mid, hi)
                       ELSE SqrtBetween(x, lo, mid - 1) :
                           mid \in {(lo + hi + 1) \div 2}} : TRUE

\* Whether r * r + r < x * SCALE: then r + 1 is nearer to the root than r.
SqNearerUp(r, x) == Square(r).hi + ((Square(r).lo + r) \div SCALE) < x

\* The largest root whose square the 32-bit integers hold.
SqrtTop == 46 * SCALE

\* The double sqrt(x) for x >= 0.
FSqrt(x) ==
    LET top == IF x < SCALE THEN SCALE ELSE IF x > SqrtTop THEN SqrtTop ELSE x
        r   == SqrtBetween(x, 0, top)
    IN  Round(IF SqNearerUp(r, x) THEN r + 1 ELSE r)

(***************************************************************************)
(* The height grid: a buffer of width * height doubles                     *)
(***************************************************************************)
Min(a, b) == IF a < b THEN a ELSE b

Max(a, b) == IF a > b THEN a ELSE b

\* #define H(heightmap, w, x, y) (*((heightmap) + (y) * (w) + (x)))
HIndex(w, x, y) == y * w + x

\* The value H reads: a cell of the buffer, or whatever lies at an address
\* outside it (junk).
HRead(hm, w, x, y, junk) ==
    IF HIndex(w, x, y) \in DOMAIN hm THEN hm[HIndex(w, x, y)] ELSE junk

\* A cell update that stores v in place of adding it.
HStore(hm, w, x, y, v) ==
    [hm EXCEPT ![HIndex(w, x, y)] = v]

\* H(heightmap, w, x, y) += v inside the buffer.
HAdd(hm, w, x, y, v) ==
    [hm EXCEPT ![HIndex(w, x, y)] = FAdd(@, v)]

RECURSIVE SumUpTo(_, _)
SumUpTo(hm, n) == IF n < 0 THEN 0 ELSE hm[n] + SumUpTo(hm, n - 1)

\* The sum of all grid heights.
SumGrid(hm) == SumUpTo(hm, Cardinality(DOMAIN hm) - 1)

\* The cells whose height differs between two grids.
Changed(before, after) == {k \in DOMAIN before : after[k] # before[k]}

\* The largest magnitude among the grid heights.
Largest(hm) ==
    CHOOSE m \in {Abs(hm[k]) : k \in DOMAIN hm} :
        \A k \in DOMAIN hm : Abs(hm[k]) <= m

\* The cells H reads in compute_gradient at pos = (px, py).
GradientReads(w, px, py) ==
    LET x == Trunc(px)
        y == Trunc(py)
    IN  {HIndex(w, x + 1, y), HIndex(w, x, y),
         HIndex(w, x + 1, y + 1), HIndex(w, x, y + 1)}

\* compute_gradient: the fixed 0.5/0.5 blend of forward differences.
compute_gradient(w, hm, px, py, junk) ==
    LET x == Trunc(px)
        y == Trunc(py)
        u == Frac(1, 2)
        v == Frac(1, 2)
        h00 == HRead(hm, w, x, y, junk)
        h10 == HRead(hm, w, x + 1, y, junk)
        h01 == HRead(hm, w, x, y + 1, junk)
        h11 == HRead(hm, w, x + 1, y + 1, junk)
    IN  [x |-> FAdd(FMul(FSub(h10, h00), FSub(SCALE, v)),
                    FMul(FSub(h11, h01), v)),
         y |-> FAdd(FMul(FSub(h01, h00), FSub(SCALE, u)),
                    FMul(FSub(h11, h10), u))]

\* A validity check that lets the boundary cells through.
verify_drop_pos_on_grid(px, py, w, h) ==
    LET x == Trunc(px)
        y == Trunc(py)
    IN  0 <= x /\ x < w /\ 0 <= y /\ y < h

\* verify_drop_pos: the truncated cell is strictly inside the grid.
verify_drop_pos(px, py, w, h) ==
    LET x == Trunc(px)
        y == Trunc(py)
    IN  0 < x /\ x < w - 1 /\ 0 < y /\ y < h - 1

\* The four normalised bilinear weights of simulate_deposition, in the
\* order w11, w12, w21, w22, with the cell each belongs to.
DepositionWeights(w, h, px, py) ==
    LET x1 == Trunc(px)
        y1 == Trunc(py)
        x2 == Min(x1 + 1, w - 1)
        y2 == Min(y1 + 1, h - 1)
        dx == FSub(px, Real(x1))
        dy == FSub(py, Real(y1))
        w11 == FMul(FSub(SCALE, dx), FSub(SCALE, dy))
        w12 == FMul(FSub(SCALE, dx), dy)
        w21 == FMul(dx, FSub(SCALE, dy))
        w22 == FMul(dx, dy)
        sum_w == FAdd(FAdd(FAdd(w11, w12), w21), w22)
    IN  [sum_w |-> sum_w,
         cells |-> << [x |-> x1, y |-> y1, w |-> FDiv(w11, sum_w)],
                      [x |-> x1, y |-> y2, w |-> FDiv(w12, sum_w)],
                      [x |-> x2, y |-> y1, w |-> FDiv(w21, sum_w)],
                      [x |-> x2, y |-> y2, w |-> FDiv(w22, sum_w)] >>]

\* The deposits one after the other: cell k receives to_drop * w when that
\* product is positive.  Returns the grid and the sum dropped.
RECURSIVE DepositInto(_, _, _, _, _, _)
DepositInto(hm, w, cells, k, to_drop, sum_dropped) ==
    IF k > Len(cells)
    THEN [hm |-> hm, ret |-> sum_dropped]
    ELSE LET dropped == FMul(to_drop, cells[k].w)
         IN  IF dropped > 0
             THEN DepositInto(HAdd(hm, w, cells[k].x, cells[k].y, dropped),
                              w, cells, k + 1, to_drop,
                              FAdd(sum_dropped, dropped))
             ELSE DepositInto(hm, w, cells, k + 1, to_drop, sum_dropped)

\* simulate_deposition: the grid after the call and the value returned.
simulate_deposition(w, h, hm, px, py, to_drop) ==
    LET ws == DepositionWeights(w, h, px, py)
    IN  IF ws.sum_w <= EPSILON
        THEN [hm |-> hm, ret |-> 0]
        ELSE DepositInto(hm, w, ws.cells, 1, to_drop, 0)

\* The cells simulate_deposition adds to: those whose share is positive.
DepositionWrites(w, h, px, py, to_drop) ==
    LET ws == DepositionWeights(w, h, px, py)
    IN  IF ws.sum_w <= EPSILON
        THEN {}
        ELSE {[x |-> ws.cells[k].x, y |-> ws.cells[k].y] :
                 k \in {j \in 1..4 : FMul(to_drop, ws.cells[j].w) > 0}}

\* The cells compute_gradient reads through H at pos = (px, py).
GradientCells(px, py) ==
    {[x |-> Trunc(px) + dx, y |-> Trunc(py) + dy] : dx \in {0, 1}, dy \in {0, 1}}

\* The two cells the h_diff of simulate_drop reads.
HDiffCells(new_pos, old_pos) ==
    {[x |-> Trunc(new_pos.x), y |-> Trunc(new_pos.y)],
     [x |-> Trunc(old_pos.x), y |-> Trunc(old_pos.y)]}

(***************************************************************************)
(* The erosion disc of simulate_drop                                       *)
(***************************************************************************)
\* weights[index] for index = k - 1: the loops run dx outermost, dy
\* innermost, both over -radius..radius.
ErosionWeight(w, h, px, py, radius, k) ==
    LET side == 2 * radius + 1
        dx == ((k - 1) \div side) - radius
        dy == ((k - 1) % side) - radius
        x == Trunc(FAdd(px, Real(dx)))
        y == Trunc(FAdd(py, Real(dy)))
        dist == FSqrt(Real(dx * dx + dy * dy))
    IN  IF 0 <= x /\ x < w /\ 0 <= y /\ y < h /\ dist <= Real(radius)
        THEN [used |-> TRUE, x |-> x, y |-> y, w |-> FSub(Real(radius), dist)]
        ELSE [used |-> FALSE, x |-> 0, y |-> 0, w |-> 0]

\* struct weight weights[size_weights], as filled by the two loops.
ErosionWeights(w, h, px, py, radius) ==
    [k \in 1..((2 * radius + 1) * (2 * radius + 1)) |->
        ErosionWeight(w, h, px, py, radius, k)]

\* total_weight += weights[index].w over the first k entries in use.
RECURSIVE TotalWeightUpTo(_, _)
TotalWeightUpTo(ws, k) ==
    IF k = 0
    THEN 0
    ELSE IF ws[k].used
         THEN FAdd(TotalWeightUpTo(ws, k - 1), ws[k].w)
         ELSE TotalWeightUpTo(ws, k - 1)

\* total_weight: the sum of the weights in use.
TotalWeight(ws) == TotalWeightUpTo(ws, Len(ws))

\* A quantity that leaves out the division by total_weight.
ErosionQuantityUnshared(gain, wgt, total_weight) ==
    FMul(FMul(gain, wgt), SCALE)

\* quantity = gain * (weights[i].w / total_weight) * 1
ErosionQuantity(gain, wgt, total_weight) ==
    FMul(FMul(gain, FDiv(wgt, total_weight)), SCALE)

\* The loop over weights[]: each cell in use loses its quantity and the
\* drop's sediment gains it.  Returns the grid and the sediment.
RECURSIVE ErodeFrom(_, _, _, _, _, _, _)
ErodeFrom(hm, w, ws, k, gain, total_weight, sediment) ==
    IF k > Len(ws)
    THEN [hm |-> hm, sediment |-> sediment]
    ELSE IF ws[k].used
         THEN LET quantity == ErosionQuantity(gain, ws[k].w, total_weight)
              IN  ErodeFrom(HAdd(hm, w, ws[k].x, ws[k].y, 0 - quantity),
                            w, ws, k + 1, gain, total_weight,
                            FAdd(sediment, quantity))
         ELSE ErodeFrom(hm, w, ws, k + 1, gain, total_weight, sediment)

\* The cells of the weights in use.
CellsInUse(ws, w) == {HIndex(w, ws[k].x, ws[k].y) : k \in {j \in DOMAIN ws : ws[j].used}}

\* The cells the erosion loop subtracts from.
ErosionWrites(ws, total_weight) ==
    IF total_weight > 0
    THEN {[x |-> ws[k].x, y |-> ws[k].y] : k \in {j \in DOMAIN ws : ws[j].used}}
    ELSE {}

\* The erosion branch: nothing happens unless total_weight > 0.0.  Returns
\* the grid and the sediment, with total_weight and the cells in use.
ErodeWith(hm, w, ws, total_weight, gain, sediment) ==
    LET e == IF total_weight > 0
             THEN ErodeFrom(hm, w, ws, 1, gain, total_weight, sediment)
             ELSE [hm |-> hm, sediment |-> sediment]
    IN  [hm |-> e.hm, sediment |-> e.sediment, total_weight |-> total_weight,
         cells |-> CellsInUse(ws, w),
         writes |-> ErosionWrites(ws, total_weight)]

Erode(hm, w, h, px, py, radius, gain, sediment) ==
    ErodeWith(hm, w, ErosionWeights(w, h, px, py, radius),
              TotalWeight(ErosionWeights(w, h, px, py, radius)),
              gain, sediment)

(***************************************************************************)
(* State                                                                   *)
(***************************************************************************)
VARIABLES
    pc,         \* where control is
    width,      \* int width
    height,     \* int height
    heightmap,  \* the buffer behind double heightmap[width][height]
    param,      \* struct parameters
    drop,       \* simulate_drop's struct drop (its own copy, by value)
    loc,        \* simulate_drop's locals that live across its inner loops
    eng,        \* simulate_erosion_detailed: nb_drop, the interval, i, the saves
    iters,      \* iterations of the step loop begun by the current simulate_drop
    obs,        \* what the last operation did (for the properties)
    gen,        \* generate_random_heightgaussian: its arguments and locals
    call        \* the arguments of a function called on its own

vars == <<pc, width, height, heightmap, param, drop, loc, eng, iters, obs,
          gen, call>>

None == [kind |-> "none"]

\* drop.lifetime = 1000
LIFETIME == 1000

(***************************************************************************)
(* simulate_erosion_detailed and simulate_erosion                          *)
(***************************************************************************)
\* random_double: hash / UINT32_MAX lies in [0, 1]; the draws considered,
\* two of them too small for a direction to have a norm.
RandomDoubles == {0, 5, 638000, 739000}

\* The draws a fresh drop's position is made of: those above, and one that
\* lands in the first interior column and row.
StartDraws == RandomDoubles \cup {300000}

\* random_double_min_max(seed, min, max) for the draw r.
random_double_min_max(r, min, max) == FAdd(min, FMul(r, FSub(max, min)))

\* The drop simulate_erosion_detailed builds around the drawn position.
FreshDrop(rx, ry) ==
    [position  |-> [x |-> random_double_min_max(rx, 0, Real(width)),
                    y |-> random_double_min_max(ry, 0, Real(height))],
     direction |-> [x |-> 0, y |-> 0],
     velocity  |-> SCALE,
     water     |-> SCALE,
     sediment  |-> 0,
     lifetime  |-> LIFETIME]

\* A save test that is off by one index.
SavesAtShifted(i, every) == (i - 1) % every = 0

\* if (i % nb_particule_before_save == 0) save_heightmap_as_image(...)
SavesAt(i, every) == i % every = 0

\* One turn of the for loop up to the call of simulate_drop: the save when
\* i is due, then the fresh drop.
ForIter ==
    /\ pc = "for"
    /\ eng.i <= eng.nb_drop
    /\ \E rx \in StartDraws, ry \in StartDraws :
          /\ drop' = FreshDrop(rx, ry)
          /\ eng' = [eng EXCEPT
                       !.saves = IF SavesAt(eng.i, eng.every)
                                 THEN Append(@, [i |-> eng.i,
                                                 drops |-> eng.simulated])
                                 ELSE @,
                       !.before = heightmap,
                       !.start = FreshDrop(rx, ry).position,
                       !.lowered = FALSE]
    /\ obs' = IF SavesAt(eng.i, eng.every)
              THEN [kind |-> "save", i |-> eng.i]
              ELSE [kind |-> "new_drop", i |-> eng.i]
    /\ pc' = "while"
    /\ iters' = 0
    /\ loc' = None
    /\ UNCHANGED <<width, height, heightmap, param, gen, call>>

\* The for loop ends: simulate_erosion_detailed returns.
ForExit ==
    /\ pc = "for"
    /\ eng.i > eng.nb_drop
    /\ pc' = "done"
    /\ obs' = [kind |-> "return"]
    /\ UNCHANGED <<width, height, heightmap, param, drop, loc, eng, iters,
                   gen, call>>

\* A break that falls back to the test of the step loop instead of leaving it.
ReturnToStepLoop ==
    /\ pc' = "while"
    /\ eng' = eng
    /\ drop' = drop
    /\ loc' = None

\* simulate_drop returns to the for loop, which counts i up.
ReturnFromDrop ==
    /\ pc' = "for"
    /\ eng' = [eng EXCEPT !.i = @ + 1, !.simulated = @ + 1]
    /\ drop' = None
    /\ loc' = None

(***************************************************************************)
(* simulate_drop                                                           *)
(***************************************************************************)
\* while (drop.lifetime > 0 && verify_drop_pos(...) && drop.water > EPSILON)
StepLoopCondition ==
    /\ drop.lifetime > 0
    /\ verify_drop_pos(drop.position.x, drop.position.y, width, height)
    /\ drop.water > EPSILON

\* The step loop ends on its condition: simulate_drop returns.
WhileExit ==
    /\ pc = "while"
    /\ ~StepLoopCondition
    /\ ReturnFromDrop
    /\ obs' = [kind |-> IF drop.lifetime <= 0 THEN "lifetime_expired"
                        ELSE IF drop.water <= EPSILON THEN "water_exhausted"
                        ELSE "invalid_position"]
    /\ UNCHANGED <<width, height, heightmap, param, iters, gen, call>>

\* sqrt(new_dir.x * new_dir.x + new_dir.y * new_dir.y)
Norm(nx, ny) == FSqrt(FAdd(FMul(nx, nx), FMul(ny, ny)))

\* new_dir = drop.direction * inertia - gradient * (1.0 - inertia)
NewDirection(dir, gradient, inertia) ==
    [x |-> FSub(FMul(dir.x, inertia), FMul(gradient.x, FSub(SCALE, inertia))),
     y |-> FSub(FMul(dir.y, inertia), FMul(gradient.y, FSub(SCALE, inertia)))]

\* Steps 0 to 2 of an iteration: the lifetime, the gradient, the new
\* direction and its norm; control reaches the resampling loop's test.
StepBegin ==
    /\ pc = "while"
    /\ StepLoopCondition
    /\ \E new_dir \in {NewDirection(drop.direction,
                           compute_gradient(width, heightmap,
                               drop.position.x, drop.position.y, 0),
                           param.inertia)} :
           loc' = [kind |-> "step",
                   new_dir |-> new_dir,
                   norm |-> Norm(new_dir.x, new_dir.y),
                   redrawn |-> FALSE,
                   sum0 |-> SumGrid(heightmap),
                   sediment0 |-> drop.sediment]
    /\ drop' = [drop EXCEPT !.lifetime = @ - 1]
    /\ iters' = iters + 1
    /\ pc' = "norm"
    /\ obs' = [kind |-> "step_begin",
               reads |-> GradientCells(drop.position.x, drop.position.y),
               writes |-> {}]
    /\ UNCHANGED <<width, height, heightmap, param, eng, gen, call>>

\* The norm of each direction the resampling loop can draw.
DrawNorm == [rx \in RandomDoubles, ry \in RandomDoubles |-> Norm(rx, ry)]

\* One turn of while (norm <= EPSILON): both components are drawn again.
Resample ==
    /\ pc = "norm"
    /\ loc.norm <= EPSILON
    /\ \E rx \in RandomDoubles, ry \in RandomDoubles :
          loc' = [loc EXCEPT !.new_dir = [x |-> rx, y |-> ry],
                             !.norm = DrawNorm[rx, ry],
                             !.redrawn = TRUE]
    /\ obs' = [kind |-> "resample"]
    /\ UNCHANGED <<pc, width, height, heightmap, param, drop, eng, iters,
                   gen, call>>

\* new_dir after new_dir.x /= norm; new_dir.y /= norm.
UnitDirection ==
    [x |-> FDiv(loc.new_dir.x, loc.norm), y |-> FDiv(loc.new_dir.y, loc.norm)]

\* drop.position after the unit move.
NewPosition ==
    [x |-> FAdd(drop.position.x, UnitDirection.x),
     y |-> FAdd(drop.position.y, UnitDirection.y)]

\* The resampling loop is left with a direction that has a norm.
LeavesResampling ==
    /\ pc = "norm"
    /\ loc.norm > EPSILON

\* h_diff = H(new cell) - H(old cell), cells by truncation.
HDiff(new_pos) ==
    FSub(heightmap[HIndex(width, Trunc(new_pos.x), Trunc(new_pos.y))],
         heightmap[HIndex(width, Trunc(drop.position.x),
                          Trunc(drop.position.y))])

\* c = MAX(-h_diff, param.slope) * drop.velocity * drop.water * param.capacity
Capacity(h_diff) ==
    FMul(FMul(FMul(Max(0 - h_diff, param.slope), drop.velocity), drop.water),
         param.capacity)

\* Steps 6 and 7 with water that grows by the evaporation rate.
AccelerateSwelling(d, h_diff) ==
    [d EXCEPT !.velocity = FSqrt(FAdd(FMul(@, @),
                                      FMul(Abs(h_diff), param.gravity))),
              !.water = FMul(@, FAdd(SCALE, param.evaporation))]

\* Steps 6 and 7: the new velocity and the evaporation.
Accelerate(d, h_diff) ==
    [d EXCEPT !.velocity = FSqrt(FAdd(FMul(@, @),
                                      FMul(Abs(h_diff), param.gravity))),
              !.water = FMul(@, FSub(SCALE, param.evaporation))]

\* A validity check placed after the reads of h_diff.
StepOutOfBoundsLate ==
    /\ LeavesResampling
    /\ \E new_pos \in {NewPosition} :
          /\ ~verify_drop_pos(new_pos.x, new_pos.y, width, height)
          /\ obs' = [kind |-> "out_of_bounds",
                     reads |-> HDiffCells(new_pos, drop.position),
                     writes |-> {}]
    /\ ReturnFromDrop
    /\ UNCHANGED <<width, height, heightmap, param, iters, gen, call>>

\* The moved drop left the grid: break, before any read or write.
StepOutOfBounds ==
    /\ LeavesResampling
    /\ \E new_pos \in {NewPosition} :
          ~verify_drop_pos(new_pos.x, new_pos.y, width, height)
    /\ ReturnFromDrop
    /\ obs' = [kind |-> "out_of_bounds", reads |-> {}, writes |-> {}]
    /\ UNCHANGED <<width, height, heightmap, param, iters, gen, call>>

\* The locals of the uphill branch on the way into its loop.
UphillLocals(keep_going, to_drop, h_diff) ==
    [kind |-> "uphill", keep_going |-> keep_going, to_drop |-> to_drop,
     h_diff |-> h_diff, old_pos |-> drop.position, reissued |-> FALSE,
     sum0 |-> loc.sum0, sediment0 |-> loc.sediment0]

\* Uphill with drop.sediment >= h_diff: h_diff is deposited at old_pos and
\* control reaches the test of while (to_drop > EPSILON).
StepUphillEnough ==
    /\ LeavesResampling
    /\ \E new_pos \in {NewPosition} :
          /\ verify_drop_pos(new_pos.x, new_pos.y, width, height)
          /\ \E h_diff \in {HDiff(new_pos)} :
                /\ h_diff > 0
                /\ drop.sediment >= h_diff
                /\ \E d \in {simulate_deposition(width, height, heightmap,
                                 drop.position.x, drop.position.y, h_diff)} :
                      /\ heightmap' = d.hm
                      /\ loc' = UphillLocals(TRUE, FSub(h_diff, d.ret), h_diff)
                      /\ obs' = [kind |-> "deposit_uphill", asked |-> h_diff,
                                 ret |-> d.ret,
                                 reads |-> HDiffCells(new_pos, drop.position),
                                 writes |-> DepositionWrites(width, height,
                                     drop.position.x, drop.position.y,
                                     h_diff)]
                /\ drop' = [drop EXCEPT !.position = new_pos]
    /\ pc' = "refill"
    /\ UNCHANGED <<width, height, param, eng, iters, gen, call>>

\* Uphill with drop.sediment < h_diff: the sediment is deposited at old_pos
\* and control reaches the test of while (drop.sediment > EPSILON).
StepUphillShort ==
    /\ LeavesResampling
    /\ \E new_pos \in {NewPosition} :
          /\ verify_drop_pos(new_pos.x, new_pos.y, width, height)
          /\ \E h_diff \in {HDiff(new_pos)} :
                /\ h_diff > 0
                /\ drop.sediment < h_diff
                /\ \E d \in {simulate_deposition(width, height, heightmap,
                                 drop.position.x, drop.position.y,
                                 drop.sediment)} :
                      /\ heightmap' = d.hm
                      /\ drop' = [drop EXCEPT !.position = new_pos,
                                              !.sediment = FSub(@, d.ret)]
                      /\ obs' = [kind |-> "deposit_uphill",
                                 asked |-> drop.sediment, ret |-> d.ret,
                                 reads |-> HDiffCells(new_pos, drop.position),
                                 writes |-> DepositionWrites(width, height,
                                     drop.position.x, drop.position.y,
                                     drop.sediment)]
                /\ loc' = UphillLocals(FALSE, drop.sediment, h_diff)
    /\ pc' = "settle"
    /\ UNCHANGED <<width, height, param, eng, iters, gen, call>>

\* to_drop = (drop.sediment - c) * param.deposition
Excess(c) == FMul(FSub(drop.sediment, c), param.deposition)

\* Flat or downhill, at or over capacity: part of the excess is deposited.
StepDeposit ==
    /\ LeavesResampling
    /\ \E new_pos \in {NewPosition} :
          /\ verify_drop_pos(new_pos.x, new_pos.y, width, height)
          /\ \E h_diff \in {HDiff(new_pos)} :
                /\ h_diff <= 0
                /\ \E c \in {Capacity(h_diff)} :
                      /\ drop.sediment >= c
                      /\ \E d \in {simulate_deposition(width, height,
                                       heightmap, drop.position.x,
                                       drop.position.y, Excess(c))} :
                            /\ heightmap' = d.hm
                            /\ drop' = Accelerate(
                                  [drop EXCEPT !.position = new_pos,
                                               !.sediment = FSub(@, d.ret)],
                                  h_diff)
                            /\ obs' = [kind |-> "deposit",
                                       asked |-> Excess(c), ret |-> d.ret,
                                       h_diff |-> h_diff, c |-> c,
                                       added |-> SumGrid(d.hm)
                                                 - SumGrid(heightmap),
                                       reads |-> HDiffCells(new_pos,
                                                     drop.position),
                                       writes |-> DepositionWrites(width,
                                           height, drop.position.x,
                                           drop.position.y, Excess(c))]
    /\ pc' = "while"
    /\ loc' = None
    /\ UNCHANGED <<width, height, param, eng, iters, gen, call>>

\* A gain that is not capped by the height difference.
GainUncapped(c, h_diff) == FMul(FSub(c, drop.sediment), param.erosion)

\* A gain that takes nothing from the grid.
GainNothing(c, h_diff) == 0

\* gain = MIN((c - drop.sediment) * param.erosion, -h_diff)
Gain(c, h_diff) ==
    Min(FMul(FSub(c, drop.sediment), param.erosion), 0 - h_diff)

\* Flat or downhill, under capacity: the disc around old_pos is eroded.
StepErode ==
    /\ LeavesResampling
    /\ \E new_pos \in {NewPosition} :
          /\ verify_drop_pos(new_pos.x, new_pos.y, width, height)
          /\ \E h_diff \in {HDiff(new_pos)} :
                /\ h_diff <= 0
                /\ \E c \in {Capacity(h_diff)} :
                      /\ drop.sediment < c
                      /\ \E e \in {Erode(heightmap, width, height,
                                       drop.position.x, drop.position.y,
                                       param.radius, Gain(c, h_diff),
                                       drop.sediment)} :
                            /\ heightmap' = e.hm
                            /\ drop' = Accelerate(
                                  [drop EXCEPT !.position = new_pos,
                                               !.sediment = e.sediment],
                                  h_diff)
                            /\ obs' = [kind |-> "erode",
                                       gain |-> Gain(c, h_diff),
                                       h_diff |-> h_diff, c |-> c,
                                       total_weight |-> e.total_weight,
                                       cells |-> e.cells,
                                       changed |-> Changed(heightmap, e.hm),
                                       removed |-> SumGrid(heightmap)
                                                   - SumGrid(e.hm),
                                       credited |-> e.sediment
                                                    - drop.sediment,
                                       reads |-> HDiffCells(new_pos,
                                                     drop.position),
                                       writes |-> e.writes]
    /\ pc' = "while"
    /\ loc' = None
    /\ eng' = [eng EXCEPT !.lowered =
                  @ \/ \E k \in DOMAIN heightmap :
                           heightmap'[k] < heightmap[k]]
    /\ UNCHANGED <<width, height, param, iters, gen, call>>

\* What the uphill branch did, seen when it breaks out of the step loop.
UphillSummary ==
    [kind |-> "uphill", keep_going |-> loc.keep_going, h_diff |-> loc.h_diff,
     sediment0 |-> loc.sediment0, reissued |-> loc.reissued,
     added |-> SumGrid(heightmap) - loc.sum0, sediment |-> drop.sediment]

\* One turn of while (to_drop > EPSILON): drop.sediment is deposited again.
Refill ==
    /\ pc = "refill"
    /\ loc.to_drop > EPSILON
    /\ \E d \in {simulate_deposition(width, height, heightmap, loc.old_pos.x,
                                     loc.old_pos.y, drop.sediment)} :
           /\ heightmap' = d.hm
           /\ loc' = [loc EXCEPT !.to_drop = FSub(@, d.ret),
                              !.reissued = TRUE]
           /\ obs' = [kind |-> "reissue", leftover |-> loc.to_drop,
                      asked |-> drop.sediment, ret |-> d.ret,
                      added |-> SumGrid(d.hm) - SumGrid(heightmap),
                      reads |-> {},
                      writes |-> DepositionWrites(width, height,
                          loc.old_pos.x, loc.old_pos.y, drop.sediment)]
    /\ UNCHANGED <<pc, width, height, param, drop, eng, iters, gen, call>>

\* to_drop <= EPSILON: break.
RefillExit ==
    /\ pc = "refill"
    /\ loc.to_drop <= EPSILON
    /\ ReturnFromDrop
    /\ obs' = UphillSummary
    /\ UNCHANGED <<width, height, heightmap, param, iters, gen, call>>

\* One turn of while (drop.sediment > EPSILON): what is left is deposited.
Settle ==
    /\ pc = "settle"
    /\ drop.sediment > EPSILON
    /\ \E d \in {simulate_deposition(width, height, heightmap, loc.old_pos.x,
                                     loc.old_pos.y, drop.sediment)} :
           /\ heightmap' = d.hm
           /\ drop' = [drop EXCEPT !.sediment = FSub(@, d.ret)]
           /\ obs' = [kind |-> "reissue", leftover |-> drop.sediment,
                      asked |-> drop.sediment, ret |-> d.ret,
                      added |-> SumGrid(d.hm) - SumGrid(heightmap),
                      reads |-> {},
                      writes |-> DepositionWrites(width, height,
                          loc.old_pos.x, loc.old_pos.y, drop.sediment)]
    /\ loc' = [loc EXCEPT !.reissued = TRUE]
    /\ UNCHANGED <<pc, width, height, param, eng, iters, gen, call>>

\* drop.sediment <= EPSILON: break.
SettleExit ==
    /\ pc = "settle"
    /\ drop.sediment <= EPSILON
    /\ ReturnFromDrop
    /\ obs' = UphillSummary
    /\ UNCHANGED <<width, height, heightmap, param, iters, gen, call>>

(***************************************************************************)
(* The runs considered                                                     *)
(***************************************************************************)
\* The buffer holding the rows given (row y, then column x), in reals.
GridOf(rows) ==
    LET w == Len(rows[1])
        h == Len(rows)
    IN  [k \in 0..(w * h - 1) |-> Real(rows[(k \div w) + 1][(k % w) + 1])]

\* A level plain.
FlatRows == << <<3, 3, 3, 3, 3>>,
               <<3, 3, 3, 3, 3>>,
               <<3, 3, 3, 3, 3>>,
               <<3, 3, 3, 3, 3>> >>

\* The planar ramp h(x, y) = x.
RampRows == << <<0, 1, 2, 3, 4>>,
               <<0, 1, 2, 3, 4>>,
               <<0, 1, 2, 3, 4>>,
               <<0, 1, 2, 3, 4>> >>

\* Two level cells whose gradients point at each other.
SeesawRows == << <<0, 0, 0, 0>>,
                 <<0, 0, 0, 0>>,
                 <<0, 1, 0 - 1, 1>> >>

\* A gorge between high walls: a tall drop, and rises beyond the hollow.
GorgeRows == << <<40, 40, 40, 40, 40>>,
                <<40, 30, 2, 12, 40>>,
                <<40, 30, 0, 36, 40>>,
                <<40, 40, 40, 40, 40>> >>

\* A basin whose floor rises toward a high cell.
BasinRows == << <<40, 40, 40, 40, 40>>,
                <<40, 30, 0, 36, 40>>,
                <<40, 0, 2, 2, 40>>,
                <<40, 40, 40, 40, 40>> >>

\* struct parameters, in the documented ranges, radius 0 besides.
Parameters ==
    [inertia     : {Frac(1, 10)},
     slope       : {Frac(1, 1000)},
     capacity    : {Real(4)},
     deposition  : {Frac(1, 2)},
     erosion     : {Frac(1, 2)},
     gravity     : {Real(1)},
     evaporation : {0, Frac(1, 2)},
     radius      : {0, 1, 2}]

\* The most drops a run simulates.
MaxDrops == 2

\* simulate_erosion_detailed(..., nb_drop, path_name, every) with every >= 1,
\* and simulate_erosion(..., nb_drop), which passes nb_drop for every.
Runs ==
    {[entry |-> "simulate_erosion_detailed", nb_drop |-> n, every |-> k] :
        n \in 0..MaxDrops, k \in 1..(MaxDrops + 1)}
    \cup {[entry |-> "simulate_erosion", nb_drop |-> n, every |-> n] :
        n \in 0..MaxDrops}

\* The runs of one drop.
OneDrop == {r \in Runs : r.nb_drop = 1 /\ r.every = 1}

\* The terrains, each with the parameters and the runs it is simulated under.
Scenarios ==
    {[rows |-> RampRows, param |-> p, run |-> r] :
        p \in {q \in Parameters : q.radius = 1 /\ q.evaporation > 0},
        r \in Runs}
    \cup {[rows |-> GorgeRows, param |-> p, run |-> r] :
        p \in Parameters, r \in OneDrop}
    \cup {[rows |-> BasinRows, param |-> p, run |-> r] :
        p \in {q \in Parameters : q.radius = 1}, r \in OneDrop}
    \cup {[rows |-> FlatRows, param |-> p, run |-> r] :
        p \in {q \in Parameters : q.radius = 1}, r \in Runs}
    \cup {[rows |-> SeesawRows, param |-> p, run |-> r] :
        p \in {q \in Parameters : q.radius = 1}, r \in OneDrop}

Init ==
    /\ pc = "for"
    /\ \E s \in Scenarios :
          /\ heightmap = GridOf(s.rows)
          /\ width = Len(s.rows[1])
          /\ height = Len(s.rows)
          /\ param = s.param
          /\ eng = [entry |-> s.run.entry, nb_drop |-> s.run.nb_drop,
                    every |-> s.run.every, i |-> 1, simulated |-> 0,
                    saves |-> << >>, before |-> GridOf(s.rows),
                    start |-> None, lowered |-> FALSE]
    /\ drop = None
    /\ loc = None
    /\ iters = 0
    /\ obs = None
    /\ gen = None
    /\ call = None

Next ==
    \/ ForIter
    \/ ForExit
    \/ WhileExit
    \/ StepBegin
    \/ Resample
    \/ StepOutOfBounds
    \/ StepUphillEnough
    \/ StepUphillShort
    \/ StepDeposit
    \/ StepErode
    \/ Refill
    \/ RefillExit
    \/ Settle
    \/ SettleExit

Spec == Init /\ [][Next]_vars

\* The resampling loop keeps turning while its condition holds.
FairSpec == Spec /\ WF_vars(Resample)

(***************************************************************************)
(* simulate_deposition called on its own                                   *)
(***************************************************************************)
\* The four cells simulate_deposition spreads over.
DepositionCells(w, h, px, py) ==
    {HIndex(w, c.x, c.y) :
        c \in {DepositionWeights(w, h, px, py).cells[k] : k \in 1..4}}

\* Positions whose four neighbour cells lie in a grid of 5 by 4 cells: on
\* a cell corner, inside a cell, in the last column and in the last row.
DepositionXs == {Real(1), Frac(125, 100), 2552000, 3190000, Frac(45, 10)}

DepositionYs == {0, 1914000, 2956000, Frac(35, 10)}

\* Amounts to deposit, from three millionths to 255.
Amounts == {3, Frac(1, 100), Real(1), 17602900, 40000200, Real(255)}

DepInit ==
    /\ pc = "call_deposition"
    /\ \E rows \in {RampRows, GorgeRows} :
          /\ heightmap = GridOf(rows)
          /\ width = Len(rows[1])
          /\ height = Len(rows)
    /\ \E x \in DepositionXs, y \in DepositionYs, a \in Amounts :
          call = [pos |-> [x |-> x, y |-> y], to_drop |-> a]
    /\ param = None
    /\ eng = None
    /\ drop = None
    /\ loc = None
    /\ iters = 0
    /\ obs = None
    /\ gen = None

\* One call simulate_deposition(width, height, heightmap, pos, to_drop).
DepositionCall ==
    /\ pc = "call_deposition"
    /\ \E d \in {simulate_deposition(width, height, heightmap, call.pos.x,
                                     call.pos.y, call.to_drop)} :
          /\ heightmap' = d.hm
          /\ obs' = [kind |-> "deposition", amount |-> call.to_drop,
                     ret |-> d.ret,
                     added |-> SumGrid(d.hm) - SumGrid(heightmap),
                     changed |-> Changed(heightmap, d.hm),
                     four |-> DepositionCells(width, height, call.pos.x,
                                              call.pos.y)]
    /\ pc' = "returned"
    /\ UNCHANGED <<width, height, param, drop, loc, eng, iters, gen, call>>

DepNext == DepositionCall

DepSpec == DepInit /\ [][DepNext]_vars

NearBoundary(px, py, w, h) ==
    LET x == Trunc(px)
        y == Trunc(py)
    IN  x < 1 \/ x >= w - 1 \/ y < 1 \/ y >= h - 1

\* Positions over a grid of 5 by 4 cells, near the boundary and away from it.
GradientXs == {Frac(1, 2), Frac(15, 10), 2552000, 3190000, Frac(45, 10)}

GradientYs == {Frac(1, 2), 1914000, 2956000, Frac(35, 10)}

\* What a read beyond the end of the buffer can find.
Junk == {0, 0 - Real(777)}

GradInit ==
    /\ pc = "call_gradient"
    /\ \E rows \in {RampRows, GorgeRows} :
          /\ heightmap = GridOf(rows)
          /\ width = Len(rows[1])
          /\ height = Len(rows)
    /\ \E x \in GradientXs, y \in GradientYs, junk \in Junk :
          call = [pos |-> [x |-> x, y |-> y], junk |-> junk]
    /\ param = None
    /\ eng = None
    /\ drop = None
    /\ loc = None
    /\ iters = 0
    /\ obs = None
    /\ gen = None

\* One call compute_gradient(width, heightmap, pos).
GradientCall ==
    /\ pc = "call_gradient"
    /\ obs' = [kind |-> "gradient",
               near |-> NearBoundary(call.pos.x, call.pos.y, width, height),
               value |-> compute_gradient(width, heightmap, call.pos.x,
                                          call.pos.y, call.junk),
               reads |-> GradientReads(width, call.pos.x, call.pos.y)]
    /\ pc' = "returned"
    /\ UNCHANGED <<width, height, heightmap, param, drop, loc, eng, iters,
                   gen, call>>

GradNext == GradientCall

GradSpec == GradInit /\ [][GradNext]_vars

\* C9: compute_gradient returns (0, 0) and reads no cell when the truncated
\* cell is within one cell of the boundary.
C9_NoEdgeGradient ==
    (obs.kind = "gradient" /\ obs.near) =>
        /\ obs.value = [x |-> 0, y |-> 0]
        /\ obs.reads = {}

(***************************************************************************)
(* generate_random_heightgaussian                                          *)
(***************************************************************************)
\* The binary digits of the fraction exp2 is computed to.
ExpBits == 20

\* 2 ^ -(2 ^ -k) for k = 1..n: the successive square roots of one half.
RECURSIVE SquareRootsOfHalf(_)
SquareRootsOfHalf(n) ==
    IF n = 0
    THEN << >>
    ELSE LET roots == SquareRootsOfHalf(n - 1)
         IN  Append(roots,
                    FSqrt(IF n = 1 THEN SCALE \div 2 ELSE roots[n - 1]))

RootsOfHalf == SquareRootsOfHalf(ExpBits)

\* 2 ^ -f for the fraction f of 1.0, one binary digit of f at a time.
RECURSIVE Exp2Fraction(_, _, _)
Exp2Fraction(f, k, v) ==
    IF k > ExpBits
    THEN v
    ELSE IF 2 * f >= SCALE
         THEN Exp2Fraction(2 * f - SCALE, k + 1, FMul(v, RootsOfHalf[k]))
         ELSE Exp2Fraction(2 * f, k + 1, v)

RECURSIVE Halve(_, _)
Halve(v, n) == IF n = 0 \/ v = 0 THEN v ELSE Halve(FDiv(v, Real(2)), n - 1)

\* exp2(x) for x <= 0.
Exp2(x) ==
    IF x = NaN
    THEN NaN
    ELSE Halve(Exp2Fraction((0 - x) % SCALE, 1, SCALE), (0 - x) \div SCALE)

\* The k-th cell the loops "for x < height, for y < width" visit, and where
\* heightmap[x][y] lies in a buffer declared double heightmap[width][height].
Visit(w, h, k) ==
    [x |-> (k - 1) \div w, y |-> (k - 1) % w,
     at |-> ((k - 1) \div w) * h + ((k - 1) % w)]

\* The buffer of w * h doubles.
Buffer(w, h) == 0..(w * h - 1)

\* The memory the loops reach: the buffer and what lies behind it.
Extent(w, h) == Max(w * h, (h - 1) * h + w)

\* Every element heightmap[x][y] the loops touch.
Visited(w, h) == {Visit(w, h, k).at : k \in 1..(w * h)}

\* What a pass of the loops over the heightmap touched.
LoopsPass(name) == [kind |-> name, touched |-> Visited(width, height)]

\* heightmap[x][y] = 0 over the loops.
ZeroCells(mem, w, h) ==
    [k \in DOMAIN mem |-> IF k \in Visited(w, h) THEN 0 ELSE mem[k]]

\* exp2(-(distance * distance) / (2 * gaussian_width * gaussian_width))
\*     * amplitude
Gaussian(x, y, center, gaussian_width, amplitude) ==
    LET dx == FSub(Real(x), center.x)
        dy == FSub(Real(y), center.y)
        distance == FSqrt(FAdd(FMul(dx, dx), FMul(dy, dy)))
    IN  FMul(Exp2(FDiv(0 - FMul(distance, distance),
                       FMul(FMul(Real(2), gaussian_width), gaussian_width))),
             amplitude)

\* One boss added over the loops, from the k-th visit on.
RECURSIVE AddBoss(_, _, _, _, _, _, _)
AddBoss(mem, w, h, k, center, gaussian_width, amplitude) ==
    IF k > w * h
    THEN mem
    ELSE LET v == Visit(w, h, k)
         IN  AddBoss([mem EXCEPT ![v.at] =
                          FAdd(@, Gaussian(v.x, v.y, center, gaussian_width,
                                           amplitude))],
                     w, h, k + 1, center, gaussian_width, amplitude)

\* The scaling loop, which also finds min and max, from the k-th visit on.
RECURSIVE ScaleCells(_, _, _, _, _)
ScaleCells(st, w, h, k, scale) ==
    IF k > w * h
    THEN st
    ELSE LET at == Visit(w, h, k).at
             v  == FMul(st.mem[at], Real(scale))
         IN  ScaleCells([mem |-> [st.mem EXCEPT ![at] = v],
                         max |-> IF v > st.max THEN v ELSE st.max,
                         min |-> IF v < st.min THEN v ELSE st.min],
                        w, h, k + 1, scale)

\* The normalising loop, from the k-th visit on.
RECURSIVE NormaliseCells(_, _, _, _, _, _)
NormaliseCells(mem, w, h, k, min, max) ==
    IF k > w * h
    THEN mem
    ELSE NormaliseCells(
             [mem EXCEPT ![Visit(w, h, k).at] =
                  FMul(FDiv(FSub(@, min), FSub(max, min)), Real(255))],
             w, h, k + 1, min, max)

\* The most bosses a call adds.
MaxBosses == 2

\* The draws of rand() considered, as fractions of 1.0.
GeneratorDraws == {0, 638000}

\* width and height of the grids generated: square, wide and tall.
Dimensions == {<<2, 2>>, <<3, 3>>, <<3, 2>>, <<2, 3>>}

GenInit ==
    /\ pc = "gen_zero"
    /\ \E d \in Dimensions, junk \in Junk :
          /\ width = d[1]
          /\ height = d[2]
          /\ heightmap = [k \in 0..(Extent(d[1], d[2]) - 1) |-> junk]
    /\ \E n \in 0..MaxBosses, scale \in {0, 5} :
          gen = [num_bosses |-> n, scale |-> scale,
                 width_range |-> [x |-> Real(5), y |-> Real(20)],
                 amplitude_range |-> [x |-> Real(1), y |-> Real(15)],
                 i |-> 0, min |-> 0, max |-> 0]
    /\ param = None
    /\ eng = None
    /\ drop = None
    /\ loc = None
    /\ iters = 0
    /\ obs = None
    /\ call = None

\* The loop setting the heightmap to 0.
GenZero ==
    /\ pc = "gen_zero"
    /\ heightmap' = ZeroCells(heightmap, width, height)
    /\ pc' = "gen_boss"
    /\ obs' = LoopsPass("zero")
    /\ UNCHANGED <<width, height, param, drop, loc, eng, iters, gen, call>>

\* A store behind the end of the buffer may hit memory the process cannot
\* write.
GenFault ==
    /\ pc = "gen_zero"
    /\ Extent(width, height) > width * height
    /\ pc' = "fault"
    /\ UNCHANGED <<width, height, heightmap, param, drop, loc, eng, iters,
                   obs, gen, call>>

\* One iteration of the loop over the bosses.
GenBoss ==
    /\ pc = "gen_boss"
    /\ gen.i < gen.num_bosses
    /\ \E rx \in GeneratorDraws, ry \in GeneratorDraws,
          rw \in GeneratorDraws, ra \in GeneratorDraws :
          heightmap' =
              AddBoss(heightmap, width, height, 1,
                      [x |-> random_double_min_max(rx, 0, Real(width)),
                       y |-> random_double_min_max(ry, 0, Real(height))],
                      random_double_min_max(rw, gen.width_range.x,
                                            gen.width_range.y),
                      random_double_min_max(ra, gen.amplitude_range.x,
                                            gen.amplitude_range.y))
    /\ gen' = [gen EXCEPT !.i = @ + 1]
    /\ obs' = LoopsPass("boss")
    /\ UNCHANGED <<pc, width, height, param, drop, loc, eng, iters, call>>

\* The loop that scales the cells and finds min and max.
GenScale ==
    /\ pc = "gen_boss"
    /\ gen.i >= gen.num_bosses
    /\ \E st \in {ScaleCells([mem |-> heightmap,
                              min |-> FMul(heightmap[0], Real(gen.scale)),
                              max |-> FMul(heightmap[0], Real(gen.scale))],
                             width, height, 1, gen.scale)} :
          /\ heightmap' = st.mem
          /\ gen' = [gen EXCEPT !.min = st.min, !.max = st.max]
    /\ pc' = "gen_norm"
    /\ obs' = LoopsPass("scale")
    /\ UNCHANGED <<width, height, param, drop, loc, eng, iters, call>>

\* The loop that normalises to 0 - 255, and the return.
GenNormalise ==
    /\ pc = "gen_norm"
    /\ heightmap' = NormaliseCells(heightmap, width, height, 1, gen.min,
                                   gen.max)
    /\ pc' = "returned"
    /\ obs' = LoopsPass("normalise")
    /\ UNCHANGED <<width, height, param, drop, loc, eng, iters, gen, call>>

GenNext ==
    \/ GenZero
    \/ GenFault
    \/ GenBoss
    \/ GenScale
    \/ GenNormalise

GenSpec == GenInit /\ [][GenNext]_vars

\* C2: generate_random_heightgaussian with num_bosses = 0, or with any
\* input whose scaled max equals its scaled min, returns a grid whose every
\* cell is 0, and stores no NaN.
C2_DegenerateGridIsZero ==
    (pc = "returned" /\ (gen.num_bosses = 0 \/ gen.max = gen.min)) =>
        \A k \in Buffer(width, height) : heightmap[k] = 0

\* C5: after generate_random_heightgaussian with num_bosses > 0 and scaled
\* max > scaled min, every cell of the grid lies in [0, 255], some cell is 0
\* and some cell is 255.
C5_GridSpansRange ==
    (pc = "returned" /\ gen.num_bosses > 0 /\ gen.max > gen.min) =>
        /\ \A k \in Buffer(width, height) :
              heightmap[k] >= 0 /\ heightmap[k] <= Real(255)
        /\ \E k \in Buffer(width, height) : heightmap[k] = 0
        /\ \E k \in Buffer(width, height) : heightmap[k] = Real(255)

(***************************************************************************)
(* Properties of simulate_drop and of the erosion driver                   *)
(***************************************************************************)
\* C1: every simulate_drop call returns, after at most 1000 iterations of
\* its step loop: no inner loop runs forever.
C1_DropReturnsWithinLifetime ==
    /\ [](iters <= LIFETIME)
    /\ []<>(~(pc = "norm" /\ loc.norm <= EPSILON))

\* The rounding the erosion disc can leave: each entry of weights[] rounds a
\* quotient, a product, a grid height and the sediment.
ErosionTolerance ==
    (2 * param.radius + 1) * (2 * param.radius + 1)
    * (Ulps(2, obs.gain) + Ulps(1, Largest(heightmap) + obs.gain)
       + Ulps(1, drop.sediment))

\* C4: in the erosion branch with total_weight > 0 the height removed from
\* the grid equals gain and equals the sediment credited, both up to the
\* rounding of the floating-point operations; with total_weight = 0 neither
\* the grid nor the sediment changes.
C4_ErosionConservesMass ==
    obs.kind = "erode" =>
        IF obs.total_weight > 0
        THEN /\ Abs(obs.removed - obs.gain) <= ErosionTolerance
             /\ Abs(obs.credited - obs.removed) <= ErosionTolerance
             /\ obs.changed \subseteq obs.cells
        ELSE obs.changed = {} /\ obs.credited = 0

\* An erosion over a disc of several cells that removed a gain from the grid.
C4_Witness ==
    /\ obs.kind = "erode"
    /\ obs.total_weight > SCALE
    /\ obs.gain > SCALE
    /\ Cardinality(obs.changed) > 1

\* C4 as stated: the height removed equals gain exactly and equals the
\* sediment credited exactly.
C4_ErosionExact ==
    obs.kind = "erode" =>
        IF obs.total_weight > 0
        THEN obs.removed = obs.gain /\ obs.credited = obs.removed
        ELSE obs.changed = {} /\ obs.credited = 0

\* C6: a degenerate direction is resampled a bounded number of times: the
\* resampling loop is always left.
C6_ResamplingEnds ==
    []((pc = "norm" /\ loc.norm <= EPSILON)
          => <>(pc # "norm" \/ loc.norm > EPSILON))

\* The saves simulate_erosion_detailed owes once the indices 1..n are past:
\* one per multiple of every, in increasing order, each seeing i - 1 drops.
ExpectedSaves(n, every) ==
    [m \in 1..(n \div every) |-> [i |-> m * every, drops |-> m * every - 1]]

\* The indices whose save, if due, has been made.
IndicesPast == IF pc = "for" \/ pc = "done" THEN eng.i - 1 ELSE eng.i

\* C7: simulate_erosion_detailed with interval K >= 1 saves exactly at the
\* indices i in 1..nb_drop with i mod K = 0, in increasing order, each save
\* made before drop i is simulated, with i - 1 drops done.
C7_SavesAtMultiples ==
    eng.entry = "simulate_erosion_detailed" =>
        /\ eng.saves = ExpectedSaves(IndicesPast, eng.every)
        /\ (pc = "done" => Len(eng.saves) = eng.nb_drop \div eng.every)

\* A finished run of two drops that saved before the second one only.
C7_Witness ==
    /\ pc = "done"
    /\ eng.entry = "simulate_erosion_detailed"
    /\ eng.nb_drop = 2
    /\ eng.every = 2
    /\ eng.saves = << [i |-> 2, drops |-> 1] >>

\* C8: simulate_erosion never saves a snapshot.
C8_NoSaveFromSimulateErosion ==
    eng.entry = "simulate_erosion" => eng.saves = << >>

\* The rounding an uphill step can leave: four products and four grid
\* heights per deposit.
UphillTolerance ==
    Ulps(8, obs.h_diff + obs.sediment0) + Ulps(8, Largest(heightmap))

\* C10: an uphill step adds min(sediment, h_diff) to the grid, up to
\* rounding, leaves sediment <= EPSILON when sediment < h_diff, and a
\* re-issued deposit asks for the leftover only.
C10_UphillAddsMin ==
    /\ obs.kind = "uphill" =>
          /\ Abs(obs.added - Min(obs.sediment0, obs.h_diff)) <= UphillTolerance
          /\ (~obs.keep_going => obs.sediment <= EPSILON)
    /\ obs.kind = "reissue" => obs.asked = obs.leftover

\* The uphill branch is running its deposits (h_diff > 0 was found).
InUphillBranch == pc \in {"refill", "settle"}

\* C11: a step with h_diff > 0 is the drop's last: from the uphill
\* deposition on, simulate_drop only deposits again at the old position and
\* then returns; velocity, water and lifetime are no longer updated, no cell
\* is lowered and no further step begins, whatever lifetime and water remain.
C11_UphillIsLastStep ==
    [][/\ (pc = "norm" /\ pc' \in {"refill", "settle"}) =>
              /\ drop'.velocity = drop.velocity
              /\ drop'.water = drop.water
              /\ drop'.lifetime = drop.lifetime
              /\ \A k \in DOMAIN heightmap : heightmap'[k] >= heightmap[k]
       /\ InUphillBranch =>
              /\ pc' \in {"refill", "settle", "for"}
              /\ iters' = iters
              /\ \A k \in DOMAIN heightmap : heightmap'[k] >= heightmap[k]
              /\ pc' # "for" =>
                     /\ drop'.velocity = drop.velocity
                     /\ drop'.water = drop.water
                     /\ drop'.lifetime = drop.lifetime
                     /\ drop'.position = drop.position
              /\ pc' = "for" =>
                     /\ obs'.kind = "uphill"
                     /\ heightmap' = heightmap
                     /\ eng'.simulated = eng.simulated + 1]_vars

\* An uphill step taken by a drop with lifetime and water to spare.
C11_Witness ==
    /\ InUphillBranch
    /\ loc.h_diff > 0
    /\ drop.lifetime > 0
    /\ drop.water > EPSILON
    /\ drop.velocity > SCALE

\* The unit move of the step under way leaves the strict interior.
MoveLeavesGrid ==
    /\ pc = "norm"
    /\ loc.norm > EPSILON
    /\ ~verify_drop_pos(NewPosition.x, NewPosition.y, width, height)

\* C12: when the position after the unit move fails the validity check,
\* simulate_drop returns in that step and the step leaves the grid as it
\* was: nothing is deposited, nothing is eroded and no cell is read after
\* the move.
C12_OutOfBoundsLeavesGrid ==
    [][MoveLeavesGrid =>
          /\ pc' = "for"
          /\ eng'.simulated = eng.simulated + 1
          /\ heightmap' = heightmap
          /\ obs'.kind = "out_of_bounds"
          /\ obs'.reads = {}
          /\ obs'.writes = {}]_vars

\* A drop that left the grid after at least one step that changed it.
C12_Witness ==
    /\ obs.kind = "out_of_bounds"
    /\ pc = "for"
    /\ iters > 1

\* A drop is being simulated.
Alive == drop # None

\* The uphill deposits of drop.sediment are under way.
InSettleLoop == pc = "settle"

RampDropReturned ==
    /\ pc = "for"
    /\ eng.simulated > 0
    /\ eng.before = GridOf(RampRows)
    /\ verify_drop_pos(eng.start.x, eng.start.y, width, height)

TouchesGrid ==
    obs.kind \in {"step_begin", "out_of_bounds", "deposit_uphill", "deposit",
                  "erode", "reissue"}

\* The cell (x, y) is a cell of the grid, at a linear index of the buffer.
InGrid(c) ==
    /\ 0 <= c.x /\ c.x < width
    /\ 0 <= c.y /\ c.y < height
    /\ HIndex(width, c.x, c.y) \in DOMAIN heightmap

\* C15: with radius >= 1, every cell simulate_drop reads or writes (the four
\* gradient reads, the two h_diff reads, the deposition writes at the old
\* position and the erosion-disc writes) has 0 <= x < width and
\* 0 <= y < height, a linear index y * width + x inside the buffer.
C15_AccessesInsideGrid ==
    (TouchesGrid /\ param.radius >= 1) =>
        \A c \in obs.reads \cup obs.writes : InGrid(c)

\* An erosion of radius 2 whose disc is cut by the edge of the grid.
C15_Witness ==
    /\ obs.kind = "erode"
    /\ param.radius = 2
    /\ obs.writes # {}
    /\ Cardinality(obs.writes) < 13
    /\ \E c \in obs.writes : c.x = 0 \/ c.y = 0

\* C16: on a heightmap declared double[width][height] the loops of
\* generate_random_heightgaussian touch every element of the buffer of
\* width * height doubles and nothing outside it, also when width # height.
C16_GeneratorStaysInBuffer ==
    /\ pc # "fault"
    /\ obs.kind \in {"zero", "boss", "scale", "normalise"} =>
           obs.touched = Buffer(width, height)

\* simulate_drop has just returned: one drop went from creation to its end.
DropReturned == pc = "for" /\ eng.simulated > 0

OnFlatGrid == pc # "fault" /\ eng # None /\ eng.before = GridOf(FlatRows)

\* C18: drops on a perfectly flat grid leave every cell unchanged: every
\* step has h_diff = 0, the erosion gain is 0 and the drop's sediment
\* stays 0.
C18_FlatGridUnchanged ==
    OnFlatGrid =>
        /\ heightmap = GridOf(FlatRows)
        /\ Alive => drop.sediment = 0
        /\ obs.kind \in {"erode", "deposit"} => obs.h_diff = 0
        /\ obs.kind = "erode" => obs.gain = 0 /\ obs.total_weight > 0
        /\ obs.kind \notin {"deposit_uphill", "reissue", "uphill"}

\* Two drops have run on the flat grid, the second through several steps
\* of the erosion branch.
C18_Witness ==
    /\ OnFlatGrid
    /\ eng.simulated = 1
    /\ iters > 1
    /\ obs.kind = "erode"

====
